---- MODULE Spec2Model ----
(***************************************************************************)
(* Model of ramanujan/poly_domains/CartesianProductPolyDomain.py:          *)
(* the resumable enumeration of coefficient pairs (iter_polys), its        *)
(* checkpoint file (_setup_metadata, update_checkpoint, delete_checkpoint) *)
(* and the splitting of a domain into sub-domains                          *)
(* (split_domains_to_processes).                                           *)
(*                                                                         *)
(* A coefficient range is a pair <<lo, hi>>; a domain is a record          *)
(* [a_coef_range, b_coef_range, b_coef_range_type]: two sequences of       *)
(* ranges, index 1 being the source's index 0 (the lead coefficient), and  *)
(* for each item of b_coef_range whether it is a Python list or a tuple.   *)
(***************************************************************************)
EXTENDS Integers, Sequences, FiniteSets, TLC

VARIABLES
    self,                 \* the domain object built by __init__
    primary_looped_domain,\* "a" or "b": the argument of every iter_polys call
    number_of_instances,  \* the argument of split_domains_to_processes
    split_result,         \* outcome of split_domains_to_processes(self, N)
    doms,                 \* the domains being enumerated, one per worker
    fs,                   \* checkpoint files, by checkpoint_file_name
    quarantine,           \* the ".corrupted" files, by checkpoint_file_name
    pc,                   \* per worker: position of the process
    checkpoint,           \* per worker: self.checkpoint
    pn_iterator,          \* per worker: items consumed from product(*pn_domain)
    sn_iterator,          \* per worker: items consumed from product(*sn_domain)
    pn_coef,              \* per worker: current outer-loop tuple
    sn_coef,              \* per worker: current inner-loop tuple
    items_passed,         \* per worker: iter_polys' counter
    emitted,              \* per worker: pairs yielded by the current run, in order
    prev_emitted,         \* per worker: pairs yielded by the previous run
    done_before,          \* per worker: pairs yielded by all earlier runs
    run_info,             \* per worker: bookkeeping of runs (see NewRunInfo)
    crashes,              \* number of process terminations so far
    args,                 \* the arguments __init__ was called with
    coeffs,               \* the argument of _get_compact_poly_deg
    deg,                  \* what _get_compact_poly_deg returned
    fr,                   \* the frame of check_for_fr (see fr_frame)
    pslq                  \* the frame of _improve_results_precision

vars == <<self, primary_looped_domain, number_of_instances, split_result, doms,
          fs, quarantine, pc, checkpoint, pn_iterator, sn_iterator, pn_coef,
          sn_coef, items_passed, emitted, prev_emitted, done_before, run_info,
          crashes, args, coeffs, deg, fr, pslq>>

\* the variables of the domain, its enumeration and its splitting
domain_vars == <<self, primary_looped_domain, number_of_instances, split_result,
                 doms, fs, quarantine, pc, checkpoint, pn_iterator, sn_iterator,
                 pn_coef, sn_coef, items_passed, emitted, prev_emitted,
                 done_before, run_info, crashes, args>>

----------------------------------------------------------------------------
(* Bounds of the model *)

\* CHECKPOINT_DUMP_SIZE is 5_000 in the source (line 10); the model scales it
\* down so that several checkpoint periods fit in a small domain.
CHECKPOINT_DUMP_SIZE == 2
\* largest polynomial degree given to the constructor
MaxDeg == 1
\* coefficient ranges given to the constructor are lo..hi within MinCoef..MaxCoef
MaxCoef == 1
\* domains enumerated by a worker hold at most MaxPairs pairs
MaxPairs == 6
\* largest number of instances asked of split_domains_to_processes
MaxInstances == 3
\* process terminations explored per behaviour
MaxCrashes == 2
\* depth at which the interpreter gives up a recursion (RecursionError)
RecursionLimit == 6
\* process terminations explored when several workers run side by side
MaxParCrashes == 1
\* largest number of instances asked for when the sub-domains are then
\* enumerated side by side
MaxParInstances == 2
\* domains given to split_domains_to_processes alone hold at most MaxSplitPairs pairs
MaxSplitPairs == 36
\* checkpoint files of earlier runs present when split_domains_to_processes is called
MaxStaleFiles == 1

MinCoef == 0 - 1

----------------------------------------------------------------------------
(* Sequences and arithmetic *)

Range(s) == {s[i] : i \in DOMAIN s}

Min(x, y) == IF x <= y THEN x ELSE y

\* the sequence s with its item i replaced by v
ReplaceAt(s, i, v) == [k \in DOMAIN s |-> IF k = i THEN v ELSE s[k]]

RECURSIVE SumSeq(_)
SumSeq(s) == IF s = <<>> THEN 0 ELSE Head(s) + SumSeq(Tail(s))

RECURSIVE Flatten(_)
Flatten(ss) == IF ss = <<>> THEN <<>> ELSE Head(ss) \o Flatten(Tail(ss))

----------------------------------------------------------------------------
(* CartesianProductPolyDomain: construction and metadata *)

\* __init__: one copy of the range per coefficient; when the lead coefficient
\* must be positive and the range starts at or below 0, the lower end of the
\* range of coefficient 0 is set to 1. The items of a_coef_range are made by
\* list() (line 28); those of b_coef_range are the caller's own object
\* (line 33), a list or a tuple as b_range_type says.
NewDomain(a_deg, a_range, b_deg, b_range, b_range_type, an_leading_coef_positive) ==
    LET a_coef_range == [i \in 1..(a_deg + 1) |-> a_range]
        clamped == IF an_leading_coef_positive /\ a_coef_range[a_deg + 1][1] <= 0
                   THEN ReplaceAt(a_coef_range, 1, <<1, a_coef_range[1][2]>>)
                   ELSE a_coef_range
    IN  [a_coef_range |-> clamped,
         b_coef_range |-> [i \in 1..(b_deg + 1) |-> b_range],
         b_coef_range_type |-> [i \in 1..(b_deg + 1) |-> b_range_type]]

range_size(coef_range) == coef_range[2] - coef_range[1] + 1

RECURSIVE domain_size_by_var_ranges(_)
domain_size_by_var_ranges(var_ranges) ==
    IF var_ranges = <<>> THEN 1
    ELSE range_size(Head(var_ranges)) * domain_size_by_var_ranges(Tail(var_ranges))

get_an_length(d) == domain_size_by_var_ranges(d.a_coef_range)

get_bn_length(d) == domain_size_by_var_ranges(d.b_coef_range)

num_iterations(d) == get_an_length(d) * get_bn_length(d)

\* range(lo, hi + 1) as a sequence; empty when hi < lo
IntRange(lo, hi) == [k \in 1..(hi - lo + 1) |-> lo + k - 1]

expand_coef_range_to_full_domain(coef_ranges) ==
    [i \in DOMAIN coef_ranges |-> IntRange(coef_ranges[i][1], coef_ranges[i][2])]

\* itertools.product(*domains): all tuples, the last axis varying fastest
RECURSIVE product(_)
product(domains) ==
    IF domains = <<>> THEN << <<>> >>
    ELSE LET head == Head(domains)
             rest == product(Tail(domains))
             m == Len(rest)
         IN  [k \in 1..(Len(head) * m) |->
                 <<head[((k - 1) \div m) + 1]>> \o rest[((k - 1) % m) + 1]]

\* the default checkpoint of _setup_metadata: first value of every axis
Origin(d) ==
    [a |-> [i \in DOMAIN d.a_coef_range |-> d.a_coef_range[i][1]],
     b |-> [i \in DOMAIN d.b_coef_range |-> d.b_coef_range[i][1]]]

\* Identifyer built from the a ranges alone
Identifyer_a_only(d) == <<d.a_coef_range>>

\* the string hashed into checkpoint_file_name, str(a_coef_range) + ';' +
\* str(b_coef_range): the numbers of the ranges and, for each item of
\* b_coef_range, the brackets of a list or the parentheses of a tuple (the
\* items of a_coef_range are always lists). The md5 digest of it is taken to
\* be collision-free, so the name is identified with the hashed text.
Identifyer(d) == <<d.a_coef_range, d.b_coef_range, d.b_coef_range_type>>

checkpoint_file_name(d) == Identifyer(d)

\* A file is absent ("none"), holds the JSON object update_checkpoint dumps
\* ("ok", with its a and b tuples), holds text json.load rejects ("garbage":
\* an empty or partly written file), or holds well-formed JSON without the
\* a / b fields ("nokeys"). `by` records the worker whose update_checkpoint
\* wrote the file (0: nobody).
File(kind, a, b, by) == [kind |-> kind, a |-> a, b |-> b, by |-> by]

NoFile == File("none", <<>>, <<>>, 0)

Garbage == File("garbage", <<>>, <<>>, 0)

NoKeys == File("nokeys", <<>>, <<>>, 0)

NoCheckpoint == [a |-> <<>>, b |-> <<>>]

\* the file under a name; names the directory does not hold have no file
FileAt(files, name) == IF name \in DOMAIN files THEN files[name] ELSE NoFile

\* _setup_metadata of domain d, lines 51-68, in a directory whose files and
\* .corrupted files are dir.fs and dir.quarantine: the checkpoint it sets,
\* the directory it leaves, and whether line 67 raised KeyError
setup_metadata(d, dir) ==
    LET name == checkpoint_file_name(d)
        file == FileAt(dir.fs, name)
    IN  CASE file.kind = "none" ->
                [raised |-> FALSE, checkpoint |-> Origin(d),
                 fs |-> dir.fs, quarantine |-> dir.quarantine]
          [] file.kind = "ok" ->
                [raised |-> FALSE, checkpoint |-> [a |-> file.a, b |-> file.b],
                 fs |-> dir.fs, quarantine |-> dir.quarantine]
          [] file.kind = "garbage" ->
                [raised |-> FALSE, checkpoint |-> Origin(d),
                 fs |-> [dir.fs EXCEPT ![name] = NoFile],
                 quarantine |-> [dir.quarantine EXCEPT ![name] = file]]
          [] file.kind = "nokeys" ->
                [raised |-> TRUE, checkpoint |-> NoCheckpoint,
                 fs |-> dir.fs, quarantine |-> dir.quarantine]

----------------------------------------------------------------------------
(* split_domains_to_processes *)

get_metadata_on_var_ranges(ranges, series) ==
    [i \in DOMAIN ranges |->
        [range |-> ranges[i], size |-> range_size(ranges[i]),
         series |-> series, index |-> i]]

\* max(all_coef_ranges, key=size): the first entry of the largest size
BiggestRange(all_coef_ranges) ==
    LET i == CHOOSE i \in DOMAIN all_coef_ranges :
                /\ \A j \in DOMAIN all_coef_ranges :
                       all_coef_ranges[j].size <= all_coef_ranges[i].size
                /\ \A j \in 1..(i - 1) :
                       all_coef_ranges[j].size < all_coef_ranges[i].size
    IN  all_coef_ranges[i]

\* SectionLen with the remainder dropped
SectionLen_no_remainder(total, sections, k) == total \div sections

\* numpy.array_split of a sequence of `total` items in `sections` parts: the
\* length of part k (1-based); the first total % sections parts get one more
SectionLen(total, sections, k) ==
    (total \div sections) + (IF k <= total % sections THEN 1 ELSE 0)

\* index (0-based) of the first item of part k
SectionStart(total, sections, k) ==
    (k - 1) * (total \div sections) + Min(k - 1, total % sections)

\* ChunkRange ending one value too far
ChunkRange_one_too_far(coef_range, sections, k) ==
    LET total == range_size(coef_range)
        first == coef_range[1] + SectionStart(total, sections, k)
    IN  <<first, first + SectionLen(total, sections, k)>>

\* [int(chunk_items[0]), int(chunk_items[-1])] for part k of range(lo, hi + 1)
ChunkRange(coef_range, sections, k) ==
    LET total == range_size(coef_range)
        first == coef_range[1] + SectionStart(total, sections, k)
    IN  <<first, first + SectionLen(total, sections, k) - 1>>

\* deepcopy(self) with the chosen axis replaced by the chunk, which is a list
WithAxis(d, biggest_range, chunk_range) ==
    IF biggest_range.series = "a"
    THEN [d EXCEPT !.a_coef_range =
                       ReplaceAt(d.a_coef_range, biggest_range.index, chunk_range)]
    ELSE [d EXCEPT !.b_coef_range =
                       ReplaceAt(d.b_coef_range, biggest_range.index, chunk_range),
                   !.b_coef_range_type =
                       ReplaceAt(d.b_coef_range_type, biggest_range.index, "list")]

\* What a call has done so far: error is "" while nothing was raised,
\* "KeyError" when _setup_metadata of a sub-domain raised it, "RecursionError"
\* when the recursion passed RecursionLimit; subs and checkpoints are the
\* sub-domains collected and the checkpoint of each; made lists every
\* sub-domain _setup_metadata was called on; fs and quarantine are the
\* directory.
SplitState(error, subs, checkpoints, made, files, corrupted) ==
    [error |-> error, subs |-> subs, checkpoints |-> checkpoints, made |-> made,
     fs |-> files, quarantine |-> corrupted]

\* the for loop of lines 265-275 from chunk k on
RECURSIVE make_sub_domains(_, _, _, _, _)
make_sub_domains(d, biggest_range, number_of_sub_arrays, k, st) ==
    IF k > number_of_sub_arrays \/ st.error # "" THEN st
    ELSE LET next_instance ==
                 WithAxis(d, biggest_range,
                          ChunkRange(biggest_range.range, number_of_sub_arrays, k))
             m == setup_metadata(next_instance, st)
         IN  make_sub_domains(d, biggest_range, number_of_sub_arrays, k + 1,
                 IF m.raised
                 THEN SplitState("KeyError", <<>>, <<>>,
                                 Append(st.made, next_instance), m.fs, m.quarantine)
                 ELSE SplitState("", Append(st.subs, next_instance),
                                 Append(st.checkpoints, m.checkpoint),
                                 Append(st.made, next_instance), m.fs, m.quarantine))

\* The call at recursion depth `depth` in the directory of st; the result
\* holds the list returned in subs when error is "".
RECURSIVE split_rec(_, _, _, _)
\* the for loop of lines 280-281 from sub-domain k on; st.subs collects
\* smaller_sub_domains
RECURSIVE split_sub_domains(_, _, _, _, _)

split_rec(d, n_instances, depth, st) ==
    IF depth > RecursionLimit
    THEN SplitState("RecursionError", <<>>, <<>>, st.made, st.fs, st.quarantine)
    ELSE
    LET all_coef_ranges == get_metadata_on_var_ranges(d.a_coef_range, "a")
                           \o get_metadata_on_var_ranges(d.b_coef_range, "b")
        biggest_range == BiggestRange(all_coef_ranges)
        number_of_sub_arrays == Min(n_instances, biggest_range.size)
        looped == make_sub_domains(d, biggest_range, number_of_sub_arrays, 1,
                      SplitState("", <<>>, <<>>, st.made, st.fs, st.quarantine))
    IN  IF looped.error # "" THEN looped
        ELSE IF biggest_range.size < n_instances
        THEN split_sub_domains(looped.subs, n_instances, 1, depth,
                 SplitState("", <<>>, <<>>, looped.made, looped.fs, looped.quarantine))
        ELSE looped

split_sub_domains(sub_domains, n_instances, k, depth, st) ==
    IF k > Len(sub_domains) \/ st.error # "" THEN st
    ELSE LET part == split_rec(sub_domains[k],
                               SectionLen(n_instances, Len(sub_domains), k),
                               depth + 1, st)
         IN  split_sub_domains(sub_domains, n_instances, k + 1, depth,
                 IF part.error # "" THEN part
                 ELSE SplitState("", st.subs \o part.subs,
                                 st.checkpoints \o part.checkpoints,
                                 part.made, part.fs, part.quarantine))

split_domains_to_processes(d, n_instances, dir) ==
    split_rec(d, n_instances, 1,
              SplitState("", <<>>, <<>>, <<>>, dir.fs, dir.quarantine))

----------------------------------------------------------------------------
(* Checkpoint files *)

Workers == DOMAIN doms

FileNames(ds) == {checkpoint_file_name(ds[w]) : w \in DOMAIN ds}

MyFile(w) == checkpoint_file_name(doms[w])

----------------------------------------------------------------------------
(* iter_polys *)

pn_coef_range(d) ==
    IF primary_looped_domain = "a" THEN d.a_coef_range ELSE d.b_coef_range

sn_coef_range(d) ==
    IF primary_looped_domain = "a" THEN d.b_coef_range ELSE d.a_coef_range

pn_series_checkpoint(cp) == IF primary_looped_domain = "a" THEN cp.a ELSE cp.b

sn_series_checkpoint(cp) == IF primary_looped_domain = "a" THEN cp.b ELSE cp.a

pn_product(d) == product(expand_coef_range_to_full_domain(pn_coef_range(d)))

sn_product(d) == product(expand_coef_range_to_full_domain(sn_coef_range(d)))

\* _goto_checkpoint: the number of items taken from the iterator up to and
\* including the first one equal to location; 0 when the iterator runs out
\* first (next() raises StopIteration)
goto_checkpoint(items, location) ==
    IF \E i \in DOMAIN items : items[i] = location
    THEN CHOOSE i \in DOMAIN items :
            /\ items[i] = location
            /\ \A j \in 1..(i - 1) : items[j] # location
    ELSE 0

\* YieldedPair with the swap for primary "b" forgotten
YieldedPair_unswapped(pn, sn) == <<pn, sn>>

\* the pair a yield statement hands out: always (a coefficients, b coefficients)
YieldedPair(pn, sn) ==
    IF primary_looped_domain = "a" THEN <<pn, sn>> ELSE <<sn, pn>>

\* the file update_checkpoint dumps for the current coordinate
DumpedFile(pn, sn, w) ==
    IF primary_looped_domain = "a" THEN File("ok", pn, sn, w)
    ELSE File("ok", sn, pn, w)

\* CheckpointDue true of the first period only
CheckpointDue_once(items) == items = CHECKPOINT_DUMP_SIZE

\* the test guarding update_checkpoint in both loops
CheckpointDue(items) == items % CHECKPOINT_DUMP_SIZE = 0

\* run_info: loaded - self.checkpoint came from the checkpoint file;
\* found - the file _setup_metadata met; writes - update_checkpoint calls
\* completed by the run (kept after the run ends); ended - how the previous
\* run ended ("never", "crash", "done")
NewRunInfo == [loaded |-> FALSE, found |-> NoFile, writes |-> 0, ended |-> "never"]

\* _setup_metadata, lines 51-68: the default checkpoint, replaced by the
\* file's content when a file is present and json.load accepts it. A file it
\* rejects is renamed to <name>.corrupted. A file without the a / b fields
\* is accepted by json.load and makes line 67 raise KeyError: the constructor
\* fails ("load_failed") and the file stays where it is.
SetupMetadata(w) ==
    /\ pc[w] \in {"off", "done"}
    /\ LET file == fs[MyFile(w)]
       IN  /\ run_info' = [run_info EXCEPT ![w].loaded = (file.kind = "ok"),
                                           ![w].found = file,
                                           ![w].writes = 0]
           /\ CASE file.kind = "none" ->
                     /\ checkpoint' = [checkpoint EXCEPT ![w] = Origin(doms[w])]
                     /\ pc' = [pc EXCEPT ![w] = "ready"]
                     /\ UNCHANGED <<fs, quarantine>>
                [] file.kind = "ok" ->
                     /\ checkpoint' = [checkpoint EXCEPT ![w] = [a |-> file.a, b |-> file.b]]
                     /\ pc' = [pc EXCEPT ![w] = "ready"]
                     /\ UNCHANGED <<fs, quarantine>>
                [] file.kind = "garbage" ->
                     /\ checkpoint' = [checkpoint EXCEPT ![w] = Origin(doms[w])]
                     /\ pc' = [pc EXCEPT ![w] = "ready"]
                     /\ fs' = [fs EXCEPT ![MyFile(w)] = NoFile]
                     /\ quarantine' = [quarantine EXCEPT ![MyFile(w)] = file]
                [] file.kind = "nokeys" ->
                     /\ checkpoint' = [checkpoint EXCEPT ![w] = NoCheckpoint]
                     /\ pc' = [pc EXCEPT ![w] = "load_failed"]
                     /\ UNCHANGED <<fs, quarantine>>
    /\ emitted' = [emitted EXCEPT ![w] = <<>>]
    /\ prev_emitted' = [prev_emitted EXCEPT ![w] =
            IF pc[w] = "done" THEN <<>> ELSE prev_emitted[w]]
    /\ done_before' = [done_before EXCEPT ![w] =
            IF pc[w] = "done" THEN {} ELSE done_before[w]]
    /\ UNCHANGED <<self, primary_looped_domain, number_of_instances, split_result,
                   doms, pn_iterator, sn_iterator, pn_coef, sn_coef, items_passed,
                   crashes>>

\* iter_polys up to its first yield, lines 171-195: both iterators are moved
\* to the checkpoint and the checkpoint pair is yielded. A checkpoint that is
\* not in the domain ends the generator with an exception.
StartIter(w) ==
    /\ pc[w] = "ready"
    /\ LET pn_at == goto_checkpoint(pn_product(doms[w]), pn_series_checkpoint(checkpoint[w]))
           sn_at == goto_checkpoint(sn_product(doms[w]), sn_series_checkpoint(checkpoint[w]))
       IN  IF pn_at = 0 \/ sn_at = 0
           THEN /\ pc' = [pc EXCEPT ![w] = "failed"]
                /\ UNCHANGED <<pn_iterator, sn_iterator, pn_coef, sn_coef,
                               items_passed, emitted>>
           ELSE /\ pn_iterator' = [pn_iterator EXCEPT ![w] = pn_at]
                /\ sn_iterator' = [sn_iterator EXCEPT ![w] = sn_at]
                /\ pn_coef' = [pn_coef EXCEPT ![w] = pn_series_checkpoint(checkpoint[w])]
                /\ sn_coef' = [sn_coef EXCEPT ![w] = sn_series_checkpoint(checkpoint[w])]
                /\ emitted' = [emitted EXCEPT ![w] =
                        <<(<<checkpoint[w].a, checkpoint[w].b>>)>>]
                /\ items_passed' = [items_passed EXCEPT ![w] = 1]
                /\ pc' = [pc EXCEPT ![w] = "yielded"]
    /\ UNCHANGED <<self, primary_looped_domain, number_of_instances, split_result,
                   doms, fs, quarantine, checkpoint, prev_emitted, done_before,
                   run_info, crashes>>

\* NextCoordinate with the inner iterator of every later outer item moved to
\* the checkpoint as the first one is, instead of starting afresh
NextCoordinate_inner_from_checkpoint(w) ==
    LET pns == pn_product(doms[w])
        sns == sn_product(doms[w])
    IN  IF sn_iterator[w] < Len(sns)
        THEN [next_pn |-> pn_iterator[w], next_sn |-> sn_iterator[w] + 1]
        ELSE IF pn_iterator[w] < Len(pns)
        THEN [next_pn |-> pn_iterator[w] + 1,
              next_sn |-> goto_checkpoint(sns, sn_series_checkpoint(checkpoint[w]))]
        ELSE [next_pn |-> 0, next_sn |-> 0]

\* The loop headers of lines 197, 209 and 211 after a yield: the next inner
\* item under the current outer item, else the next outer item with a fresh
\* inner iterator. next_pn = 0 when both iterators are exhausted.
NextCoordinate(w) ==
    LET pns == pn_product(doms[w])
        sns == sn_product(doms[w])
    IN  IF sn_iterator[w] < Len(sns)
        THEN [next_pn |-> pn_iterator[w], next_sn |-> sn_iterator[w] + 1]
        ELSE IF pn_iterator[w] < Len(pns)
        THEN [next_pn |-> pn_iterator[w] + 1, next_sn |-> 1]
        ELSE [next_pn |-> 0, next_sn |-> 0]

MoveTo(w, c) ==
    /\ pn_iterator' = [pn_iterator EXCEPT ![w] = c.next_pn]
    /\ sn_iterator' = [sn_iterator EXCEPT ![w] = c.next_sn]
    /\ pn_coef' = [pn_coef EXCEPT ![w] = pn_product(doms[w])[c.next_pn]]
    /\ sn_coef' = [sn_coef EXCEPT ![w] = sn_product(doms[w])[c.next_sn]]

\* next() on the suspended generator when no checkpoint is due: take the
\* next coordinate and yield it. The increment that follows the yield
\* (lines 207, 221) is counted with the yield, so at a suspended generator
\* items_passed is the value the code has once it is resumed.
Yield(w) ==
    /\ pc[w] = "yielded"
    /\ LET c == NextCoordinate(w)
       IN  /\ c.next_pn # 0
           /\ ~CheckpointDue(items_passed[w])
           /\ MoveTo(w, c)
           /\ emitted' = [emitted EXCEPT ![w] =
                   Append(@, YieldedPair(pn_product(doms[w])[c.next_pn],
                                         sn_product(doms[w])[c.next_sn]))]
    /\ items_passed' = [items_passed EXCEPT ![w] = @ + 1]
    /\ UNCHANGED <<self, primary_looped_domain, number_of_instances, split_result,
                   doms, fs, quarantine, pc, checkpoint, prev_emitted, done_before,
                   run_info, crashes>>

\* next() on the suspended generator when a checkpoint is due, up to
\* update_checkpoint's open(checkpoint_file_name, 'w'), which empties the file
BeginCheckpoint(w) ==
    /\ pc[w] = "yielded"
    /\ LET c == NextCoordinate(w)
       IN  /\ c.next_pn # 0
           /\ CheckpointDue(items_passed[w])
           /\ MoveTo(w, c)
    /\ fs' = [fs EXCEPT ![MyFile(w)] = Garbage]
    /\ pc' = [pc EXCEPT ![w] = "writing"]
    /\ UNCHANGED <<self, primary_looped_domain, number_of_instances, split_result,
                   doms, quarantine, checkpoint, items_passed, emitted, prev_emitted,
                   done_before, run_info, crashes>>

\* update_checkpoint's json.dump and close: the coordinate about to be
\* yielded is in the file
FinishCheckpoint(w) ==
    /\ pc[w] = "writing"
    /\ fs' = [fs EXCEPT ![MyFile(w)] = DumpedFile(pn_coef[w], sn_coef[w], w)]
    /\ run_info' = [run_info EXCEPT ![w].writes = @ + 1]
    /\ pc' = [pc EXCEPT ![w] = "written"]
    /\ UNCHANGED <<self, primary_looped_domain, number_of_instances, split_result,
                   doms, quarantine, checkpoint, pn_iterator, sn_iterator, pn_coef,
                   sn_coef, items_passed, emitted, prev_emitted, done_before, crashes>>

\* the yield that follows update_checkpoint
YieldCheckpointed(w) ==
    /\ pc[w] = "written"
    /\ emitted' = [emitted EXCEPT ![w] = Append(@, YieldedPair(pn_coef[w], sn_coef[w]))]
    /\ items_passed' = [items_passed EXCEPT ![w] = @ + 1]
    /\ pc' = [pc EXCEPT ![w] = "yielded"]
    /\ UNCHANGED <<self, primary_looped_domain, number_of_instances, split_result,
                   doms, fs, quarantine, checkpoint, pn_iterator, sn_iterator, pn_coef,
                   sn_coef, prev_emitted, done_before, run_info, crashes>>

\* delete_checkpoint leaving the file in place
delete_checkpoint_skipped(files, name) == files

\* os.remove(checkpoint_file_name); a missing file is tolerated
delete_checkpoint(files, name) == [files EXCEPT ![name] = NoFile]

\* next() on the suspended generator when both loops are exhausted:
\* delete_checkpoint, then StopIteration; items_passed keeps the number of
\* pairs yielded
Finish(w) ==
    /\ pc[w] = "yielded"
    /\ NextCoordinate(w).next_pn = 0
    /\ fs' = delete_checkpoint(fs, MyFile(w))
    /\ run_info' = [run_info EXCEPT ![w].ended = "done"]
    /\ pc' = [pc EXCEPT ![w] = "done"]
    /\ UNCHANGED <<self, primary_looped_domain, number_of_instances, split_result,
                   doms, quarantine, checkpoint, pn_iterator, sn_iterator, pn_coef,
                   sn_coef, items_passed, emitted, prev_emitted, done_before,
                   crashes>>

\* The process is terminated: everything but the files is lost.
Crash(w) ==
    /\ pc[w] \in {"ready", "yielded", "writing", "written"}
    /\ crashes < (IF split_result.called THEN MaxParCrashes ELSE MaxCrashes)
    /\ crashes' = crashes + 1
    /\ pc' = [pc EXCEPT ![w] = "off"]
    /\ checkpoint' = [checkpoint EXCEPT ![w] = NoCheckpoint]
    /\ pn_iterator' = [pn_iterator EXCEPT ![w] = 0]
    /\ sn_iterator' = [sn_iterator EXCEPT ![w] = 0]
    /\ pn_coef' = [pn_coef EXCEPT ![w] = <<>>]
    /\ sn_coef' = [sn_coef EXCEPT ![w] = <<>>]
    /\ items_passed' = [items_passed EXCEPT ![w] = 0]
    /\ emitted' = [emitted EXCEPT ![w] = <<>>]
    /\ prev_emitted' = [prev_emitted EXCEPT ![w] = emitted[w]]
    /\ done_before' = [done_before EXCEPT ![w] = @ \cup Range(emitted[w])]
    /\ run_info' = [run_info EXCEPT ![w].ended = "crash"]
    /\ UNCHANGED <<self, primary_looped_domain, number_of_instances, split_result,
                   doms, fs, quarantine>>

----------------------------------------------------------------------------
(* Initial states and specifications *)

Ranges == {r \in (MinCoef..MaxCoef) \X (MinCoef..MaxCoef) : r[1] <= r[2]}

\* the Python types a range is given as
RangeTypes == {"list", "tuple"}

\* constructor arguments; b_coef_range_type is the type of the object given
\* as b_coef_range (that of a_coef_range is lost in the list() of line 28)
Inputs == [a_deg : 0..MaxDeg, a_coef_range : Ranges,
           b_deg : 0..MaxDeg, b_coef_range : Ranges,
           b_coef_range_type : RangeTypes,
           an_leading_coef_positive : BOOLEAN]

Construct(inp) ==
    NewDomain(inp.a_deg, inp.a_coef_range, inp.b_deg, inp.b_coef_range,
              inp.b_coef_range_type, inp.an_leading_coef_positive)

\* the example of the documentation: a of degree 1 over [-3, 3] with the lead
\* coefficient positive, b of degree 0 over [-5, 5], split into 4
ExampleInput == [a_deg |-> 1, a_coef_range |-> <<0 - 3, 3>>,
                 b_deg |-> 0, b_coef_range |-> <<0 - 5, 5>>,
                 b_coef_range_type |-> "list",
                 an_leading_coef_positive |-> TRUE]

ExampleInstances == 4

ExampleDomain == Construct(ExampleInput)

\* _get_compact_poly_deg, check_for_fr and _improve_results_precision are
\* not running
NotCalled == [pc |-> "idle"]

other_vars == <<args, coeffs, deg, fr, pslq>>

NoOtherCalls ==
    /\ coeffs = <<>>
    /\ deg = NotCalled
    /\ fr = NotCalled
    /\ pslq = NotCalled

NotSplit == [called |-> FALSE, ok |-> FALSE, error |-> "", subs |-> <<>>,
             checkpoints |-> <<>>]

PerWorker(ds, v) == [w \in DOMAIN ds |-> v]

WorkersOff(ds) ==
    /\ pc = PerWorker(ds, "off")
    /\ checkpoint = PerWorker(ds, NoCheckpoint)
    /\ pn_iterator = PerWorker(ds, 0)
    /\ sn_iterator = PerWorker(ds, 0)
    /\ pn_coef = PerWorker(ds, <<>>)
    /\ sn_coef = PerWorker(ds, <<>>)
    /\ items_passed = PerWorker(ds, 0)
    /\ emitted = PerWorker(ds, <<>>)
    /\ prev_emitted = PerWorker(ds, <<>>)
    /\ done_before = PerWorker(ds, {})
    /\ run_info = PerWorker(ds, NewRunInfo)

\* One domain, enumerated by one process that may be terminated and started
\* again. The checkpoint file the first run meets is absent, or was left
\* behind unreadable or without its fields.
Init ==
    /\ args \in Inputs
    /\ self = Construct(args)
    /\ NoOtherCalls
    /\ num_iterations(self) <= MaxPairs
    /\ primary_looped_domain \in {"a", "b"}
    /\ number_of_instances = 1
    /\ split_result = NotSplit
    /\ doms = <<self>>
    /\ fs \in [FileNames(doms) -> {NoFile, Garbage, NoKeys}]
    /\ quarantine = [n \in FileNames(doms) |-> NoFile]
    /\ WorkersOff(doms)
    /\ crashes = 0

WorkerStep(w) ==
    \/ SetupMetadata(w)
    \/ StartIter(w)
    \/ Yield(w)
    \/ BeginCheckpoint(w)
    \/ FinishCheckpoint(w)
    \/ YieldCheckpointed(w)
    \/ Finish(w)
    \/ Crash(w)

Next == (\E w \in Workers : WorkerStep(w)) /\ UNCHANGED other_vars

Spec == Init /\ [][Next]_vars

\* split_domains_to_processes(number_of_instances) on self: the list it
\* returns or the exception it ends with, the checkpoint _setup_metadata gave
\* each sub-domain, and what the _setup_metadata calls did to the files
DoSplit ==
    /\ ~split_result.called
    /\ LET r == split_domains_to_processes(self, number_of_instances,
                                            [fs |-> fs, quarantine |-> quarantine])
       IN  /\ split_result' = [called |-> TRUE, ok |-> r.error = "", error |-> r.error,
                               subs |-> r.subs, checkpoints |-> r.checkpoints]
           /\ fs' = r.fs
           /\ quarantine' = r.quarantine
    /\ UNCHANGED <<self, primary_looped_domain, number_of_instances, doms,
                   pc, checkpoint, pn_iterator, sn_iterator, pn_coef,
                   sn_coef, items_passed, emitted, prev_emitted, done_before,
                   run_info, crashes>>

\* Sub-domains of the returned list are handed to processes of their own.
\* Interference between workers is a matter of two workers, so the model
\* follows the workers of any two of the sub-domains at a time (of the one
\* sub-domain when the list holds one).
Dispatch ==
    /\ split_result.called
    /\ split_result.ok
    /\ doms = <<>>
    /\ \E i \in DOMAIN split_result.subs, j \in DOMAIN split_result.subs :
          /\ IF Len(split_result.subs) = 1 THEN i = j ELSE i < j
          /\ doms' = IF i = j THEN <<split_result.subs[i]>>
                     ELSE <<split_result.subs[i], split_result.subs[j]>>
    /\ fs' = [n \in FileNames(doms') |-> FileAt(fs, n)]
    /\ quarantine' = [n \in FileNames(doms') |-> FileAt(quarantine, n)]
    /\ pc' = PerWorker(doms', "off")
    /\ checkpoint' = PerWorker(doms', NoCheckpoint)
    /\ pn_iterator' = PerWorker(doms', 0)
    /\ sn_iterator' = PerWorker(doms', 0)
    /\ pn_coef' = PerWorker(doms', <<>>)
    /\ sn_coef' = PerWorker(doms', <<>>)
    /\ items_passed' = PerWorker(doms', 0)
    /\ emitted' = PerWorker(doms', <<>>)
    /\ prev_emitted' = PerWorker(doms', <<>>)
    /\ done_before' = PerWorker(doms', {})
    /\ run_info' = PerWorker(doms', NewRunInfo)
    /\ UNCHANGED <<self, primary_looped_domain, number_of_instances, split_result,
                   crashes>>

InitUnsplit ==
    /\ primary_looped_domain \in {"a", "b"}
    /\ split_result = NotSplit
    /\ doms = <<>>
    /\ fs = <<>>
    /\ quarantine = <<>>
    /\ WorkersOff(doms)
    /\ crashes = 0

NoFiles == [fs |-> <<>>, quarantine |-> <<>>]

\* the sub-domains a split of d into n creates, those of the recursion included
MadeBySplit(d, n) == split_domains_to_processes(d, n, NoFiles).made

\* the last pair of the domain a checkpoint file name stands for
LastPairOf(name) ==
    [a |-> [i \in DOMAIN name[1] |-> name[1][i][2]],
     b |-> [i \in DOMAIN name[2] |-> name[2][i][2]]]

\* The files an earlier run can have left under a name: an unreadable one,
\* one without its fields, or a checkpoint (here the last pair). Under the
\* name of d itself only a checkpoint can be left, since the constructor of
\* d has dealt with the others.
StaleFiles(d, name) ==
    LET loaded == File("ok", LastPairOf(name).a, LastPairOf(name).b, 0)
    IN  IF name = checkpoint_file_name(d) THEN {loaded}
        ELSE {Garbage, NoKeys, loaded}

\* the directories a split of d into n can meet: at most MaxStaleFiles of
\* the names of its sub-domains hold a file
Directories(d, n) ==
    LET names == {checkpoint_file_name(MadeBySplit(d, n)[k]) :
                     k \in DOMAIN MadeBySplit(d, n)}
    IN  UNION {
          {[n2 \in names |-> IF n2 \in S THEN g[n2] ELSE NoFile] :
             g \in {h \in [S -> UNION {StaleFiles(d, n3) : n3 \in S}] :
                       \A n3 \in S : h[n3] \in StaleFiles(d, n3)}} :
          S \in {T \in SUBSET names : Cardinality(T) <= MaxStaleFiles}}

\* split_domains_to_processes alone, in a directory that may hold files of
\* earlier runs; no iter_polys is called, and primary_looped_domain, its
\* argument, is left at "a"
InitSplit ==
    /\ \/ /\ args \in Inputs
          /\ self = Construct(args)
          /\ num_iterations(self) <= MaxSplitPairs
          /\ number_of_instances \in 1..MaxInstances
       \/ /\ args = ExampleInput
          /\ self = ExampleDomain
          /\ number_of_instances = ExampleInstances
    /\ primary_looped_domain = "a"
    /\ split_result = NotSplit
    /\ doms = <<>>
    /\ fs \in Directories(self, number_of_instances)
    /\ quarantine = [n \in DOMAIN fs |-> NoFile]
    /\ WorkersOff(doms)
    /\ crashes = 0
    /\ NoOtherCalls

NextSplit == DoSplit /\ UNCHANGED other_vars

SpecSplit == InitSplit /\ [][NextSplit]_vars

\* a domain is split and its sub-domains are enumerated by processes of their
\* own, all of them looping over a as the primary series
InitPar ==
    /\ args \in Inputs
    /\ self = Construct(args)
    /\ NoOtherCalls
    /\ num_iterations(self) <= MaxPairs
    /\ number_of_instances \in 1..MaxParInstances
    /\ InitUnsplit
    /\ primary_looped_domain = "a"

NextPar ==
    (DoSplit \/ Dispatch \/ \E w \in Workers : WorkerStep(w)) /\ UNCHANGED other_vars

SpecPar == InitPar /\ [][NextPar]_vars

----------------------------------------------------------------------------
(* What the properties speak of: the domain as a set, and the nested-loop   *)
(* order, both stated from the ranges and not from the iterators            *)

RECURSIVE TupleSet(_)
TupleSet(ranges) ==
    IF ranges = <<>> THEN {<<>>}
    ELSE {<<v>> \o t : v \in Head(ranges)[1]..Head(ranges)[2], t \in TupleSet(Tail(ranges))}

\* the (a, b) pairs of a domain
PairSet(d) == TupleSet(d.a_coef_range) \X TupleSet(d.b_coef_range)

LexLess(s, t) ==
    \E i \in DOMAIN s : s[i] < t[i] /\ \A j \in 1..(i - 1) : s[j] = t[j]

PrimaryOf(p) == IF primary_looped_domain = "a" THEN p[1] ELSE p[2]

SecondaryOf(p) == IF primary_looped_domain = "a" THEN p[2] ELSE p[1]

\* p comes before q in primary-major, secondary-minor order
PairLess(p, q) ==
    \/ LexLess(PrimaryOf(p), PrimaryOf(q))
    \/ PrimaryOf(p) = PrimaryOf(q) /\ LexLess(SecondaryOf(p), SecondaryOf(q))

PairLeq(p, q) == p = q \/ PairLess(p, q)

Started(w) == pc[w] \in {"yielded", "writing", "written", "done"}

\* all pairs yielded for worker w's domain since its enumeration last began afresh
History(w) == done_before[w] \cup Range(emitted[w])

\* the pair the next run would start from, were the process to stop now
ResumePair(w) ==
    LET file == fs[MyFile(w)]
    IN  IF file.kind = "ok" THEN <<file.a, file.b>>
        ELSE <<Origin(doms[w]).a, Origin(doms[w]).b>>

----------------------------------------------------------------------------
(* C1 *)

\* C1: a run of iter_polys that started from the default (origin) checkpoint
\* yields pairs of the domain only, beginning with the first pair of the
\* nested-loop order and going from each pair to its immediate successor in
\* that order (so none is repeated or passed over); when it completes, every
\* pair of the domain has been yielded. This holds for primary "a" and "b".
C1_FreshRunEnumeratesInOrder ==
    \A w \in Workers :
        (Started(w) /\ ~run_info[w].loaded) =>
            LET e == emitted[w]
                all == PairSet(doms[w])
            IN  /\ \A i \in DOMAIN e : e[i] \in all
                /\ \A q \in all : PairLeq(e[1], q)
                /\ \A i \in 1..(Len(e) - 1) :
                       /\ PairLess(e[i], e[i + 1])
                       /\ ~\E q \in all : PairLess(e[i], q) /\ PairLess(q, e[i + 1])
                /\ pc[w] = "done" => Range(e) = all /\ Len(e) = Cardinality(all)

\* a completed fresh run with b as the primary series over a domain in which
\* both series take several values
C1_Witness ==
    \E w \in Workers :
        /\ pc[w] = "done"
        /\ ~run_info[w].loaded
        /\ crashes = 0
        /\ primary_looped_domain = "b"
        /\ Len(emitted[w]) >= 4
        /\ Cardinality(TupleSet(doms[w].a_coef_range)) >= 2
        /\ Cardinality(TupleSet(doms[w].b_coef_range)) >= 2

----------------------------------------------------------------------------
(* C2 *)

\* C2: over interrupted and resumed runs no pair is skipped: at every moment
\* each pair of the domain not yet yielded by any run lies at or after the
\* pair the next run would start from, and when a run completes every pair of
\* the domain has been yielded by some run.
C2_NoPairSkipped ==
    \A w \in Workers :
        LET all == PairSet(doms[w])
        IN  /\ \A p \in all \ History(w) : PairLeq(ResumePair(w), p)
            /\ pc[w] = "done" => all \subseteq History(w)

\* a run that resumed from a persisted checkpoint, after two interruptions,
\* has completed
C2_Witness ==
    \E w \in Workers :
        /\ pc[w] = "done"
        /\ run_info[w].loaded
        /\ crashes = 2
        /\ Len(emitted[w]) < Cardinality(PairSet(doms[w]))

----------------------------------------------------------------------------
(* C3 *)

\* the run of worker w resumed from a persisted checkpoint
Resumed(w) == Started(w) /\ run_info[w].loaded

\* pairs yielded both by the interrupted run and by the run resumed after it
Duplicated(w) == Range(prev_emitted[w]) \cap Range(emitted[w])

\* C3 as stated: a run resumed from the persisted checkpoint repeats at most
\* one pair of the interrupted run, the checkpointed coordinate, and yields
\* every pair that remained.
C3_AtMostOneDuplicate ==
    \A w \in Workers :
        Resumed(w) =>
            /\ Cardinality(Duplicated(w)) <= 1
            /\ Duplicated(w) \subseteq {<<checkpoint[w].a, checkpoint[w].b>>}
            /\ pc[w] = "done" => (PairSet(doms[w]) \ done_before[w]) \subseteq Range(emitted[w])

\* C3 amended: a run resumed from the persisted checkpoint yields every pair
\* that remained, and the pairs it repeats from the interrupted run are the
\* pairs that run yielded from the checkpointed coordinate on, of which there
\* are at most CHECKPOINT_DUMP_SIZE.
C3_AtMostDumpSizeDuplicates ==
    \A w \in Workers :
        Resumed(w) =>
            LET cp == <<checkpoint[w].a, checkpoint[w].b>>
                redone == {p \in Range(prev_emitted[w]) : PairLeq(cp, p)}
            IN  /\ Duplicated(w) \subseteq redone
                /\ Cardinality(redone) <= CHECKPOINT_DUMP_SIZE
                /\ pc[w] = "done" => Duplicated(w) = redone
                /\ pc[w] = "done" =>
                       (PairSet(doms[w]) \ done_before[w]) \subseteq Range(emitted[w])

\* a resumed run has completed and repeated CHECKPOINT_DUMP_SIZE pairs of the
\* interrupted run
C3_Witness ==
    \E w \in Workers :
        /\ pc[w] = "done"
        /\ run_info[w].loaded
        /\ Cardinality(Duplicated(w)) = CHECKPOINT_DUMP_SIZE

----------------------------------------------------------------------------
(* C4 - C6: split_domains_to_processes *)

SplitReturned == split_result.called /\ split_result.ok

Subs == split_result.subs

\* size of the first largest axis of a domain
BiggestSize(d) ==
    BiggestRange(get_metadata_on_var_ranges(d.a_coef_range, "a")
                 \o get_metadata_on_var_ranges(d.b_coef_range, "b")).size

\* C4: the sub-domains a call of split_domains_to_processes returns are
\* pairwise disjoint as sets of (a, b) pairs and their union is the set of
\* pairs of the domain that was split, also when the split recursed.
C4_SubDomainsPartition ==
    SplitReturned =>
        /\ \A i, j \in DOMAIN Subs : i # j => PairSet(Subs[i]) \cap PairSet(Subs[j]) = {}
        /\ UNION {PairSet(Subs[i]) : i \in DOMAIN Subs} = PairSet(self)

\* a split that recursed (more instances than the widest axis has values)
\* returned, on a domain with pairs in it
C4_Witness ==
    /\ SplitReturned
    /\ number_of_instances > BiggestSize(self)
    /\ Len(Subs) >= 3
    /\ PairSet(self) # {}

\* C5 as stated: split_domains_to_processes(N) returns a list of exactly N
\* sub-domains for every domain and every N >= 1 (calls ended by the KeyError
\* of a checkpoint file without its fields, which is C10's, left aside).
C5_ReturnsNSubDomains ==
    (split_result.called /\ split_result.error # "KeyError") =>
        split_result.ok /\ Len(Subs) = number_of_instances

\* C6: the sizes (num_iterations) of the sub-domains returned add up to the
\* size of the domain that was split; the documented example (a of degree 1
\* over [-3, 3], lead coefficient positive, b of degree 0 over [-5, 5], split
\* into 4) gives 4 sub-domains whose sizes add up to 3 * 7 * 11.
C6_SizesAddUp ==
    SplitReturned =>
        LET total == SumSeq([i \in DOMAIN Subs |-> num_iterations(Subs[i])])
        IN  /\ total = num_iterations(self)
            /\ (self = ExampleDomain /\ number_of_instances = ExampleInstances) =>
                   Len(Subs) = 4 /\ total = 3 * 7 * 11

\* the documented example has been split
C6_Witness ==
    /\ SplitReturned
    /\ self = ExampleDomain
    /\ number_of_instances = ExampleInstances
    /\ Len(Subs) = 4

----------------------------------------------------------------------------
(* C7: checkpoint identities of sub-domains *)

----------------------------------------------------------------------------
(* C8 - C10: the life of the checkpoint file *)

\* the greatest pair of worker w's domain in the nested-loop order
IsLastPair(w, p) == \A q \in PairSet(doms[w]) : PairLeq(q, p)

\* C8: a checkpoint file ceases to exist only when iter_polys completes,
\* after the last pair of the domain has been yielded (or when a file that
\* cannot be read is renamed); once a run has completed there is no
\* checkpoint file, and the run constructed after it starts from the origin.
C8_DeletedOnlyOnCompletion ==
    /\ [][\A w \in DOMAIN doms :
             (fs[MyFile(w)].kind # "none" /\ fs'[MyFile(w)].kind = "none") =>
                 \/ /\ pc'[w] = "done"
                    /\ emitted[w] # <<>>
                    /\ IsLastPair(w, emitted[w][Len(emitted[w])])
                 \/ /\ fs[MyFile(w)].kind = "garbage"
                    /\ quarantine'[MyFile(w)] = fs[MyFile(w)]]_vars
    /\ [](\A w \in DOMAIN doms : pc[w] = "done" => fs[MyFile(w)] = NoFile)
    /\ [][\A w \in DOMAIN doms :
             (pc[w] = "done" /\ pc'[w] # "done") =>
                 pc'[w] = "ready" /\ checkpoint'[w] = Origin(doms[w])]_vars

\* a run that wrote checkpoints has completed and its file is gone
C8_Witness ==
    \E w \in Workers :
        /\ pc[w] = "done"
        /\ run_info[w].writes >= 2
        /\ fs[MyFile(w)] = NoFile

\* C9 as stated: when a process that has written a checkpoint in its run is
\* terminated before completion, the file holds a well-formed checkpoint
\* saved by update_checkpoint.
C9_CrashLeavesCheckpoint ==
    \A w \in Workers :
        (pc[w] = "off" /\ run_info[w].ended = "crash" /\ run_info[w].writes >= 1) =>
            fs[MyFile(w)].kind = "ok" /\ fs[MyFile(w)].by = w

\* C10 as stated: constructing the domain never fails on the checkpoint
\* file; a well-formed file gives its coordinate, an absent or malformed one
\* gives the origin, and a malformed one is found under the .corrupted name.
C10_LoadNeverFails ==
    \A w \in Workers :
        /\ pc[w] # "load_failed"
        /\ pc[w] = "ready" =>
               LET found == run_info[w].found
               IN  /\ found.kind = "ok" => checkpoint[w] = [a |-> found.a, b |-> found.b]
                   /\ found.kind # "ok" => checkpoint[w] = Origin(doms[w])
                   /\ found.kind \in {"garbage", "nokeys"} =>
                          quarantine[MyFile(w)] = found /\ fs[MyFile(w)] = NoFile

----------------------------------------------------------------------------
(* C15: the ranges of a constructed domain *)

NonEmptyAxes(d) ==
    /\ \A k \in DOMAIN d.a_coef_range : d.a_coef_range[k][1] <= d.a_coef_range[k][2]
    /\ \A k \in DOMAIN d.b_coef_range : d.b_coef_range[k][1] <= d.b_coef_range[k][2]

\* C15 as stated: a domain constructed from ranges with lo <= hi, and every
\* sub-domain split_domains_to_processes returns for it, has non-empty axes
\* only (lo <= hi); when the lead a coefficient is to be positive and the
\* range given has lo <= 0, the lead a axis has lo >= 1 and every other axis
\* keeps the range given.
C15_AxesNonEmptyAndClamped ==
    /\ NonEmptyAxes(self)
    /\ SplitReturned => \A k \in DOMAIN Subs : NonEmptyAxes(Subs[k])
    /\ (args.an_leading_coef_positive /\ args.a_coef_range[1] <= 0) =>
           /\ self.a_coef_range[1][1] >= 1
           /\ \A k \in 2..Len(self.a_coef_range) : self.a_coef_range[k] = args.a_coef_range
           /\ \A k \in DOMAIN self.b_coef_range : self.b_coef_range[k] = args.b_coef_range

----------------------------------------------------------------------------
(* C18: what an interruption costs *)

\* pairs yielded by earlier runs that the current run of worker w yielded again
Redone(w) == done_before[w] \cap Range(emitted[w])

\* C18 as stated: wherever the earlier runs were interrupted, a run yields
\* again at most CHECKPOINT_DUMP_SIZE of the pairs that were yielded before it.
C18_CrashLosesAtMostDumpSize ==
    \A w \in Workers : Started(w) => Cardinality(Redone(w)) <= CHECKPOINT_DUMP_SIZE

----------------------------------------------------------------------------
(* C19: termination of split_domains_to_processes *)

\* C19 as stated: split_domains_to_processes(N) returns for every domain
\* with non-empty axes and every N >= 1, also when N is greater than the
\* number of pairs of the domain (calls ended by the KeyError of a checkpoint
\* file without its fields, which is C10's, left aside).
C19_SplitTerminates ==
    (split_result.called /\ NonEmptyAxes(self) /\ number_of_instances >= 1
        /\ split_result.error # "KeyError") =>
        split_result.ok

----------------------------------------------------------------------------
(* _get_compact_poly_deg *)

\* longest coefficient list given to _get_compact_poly_deg
MaxCoeffs == 4

\* a Python function that ends without a return statement returns None
ReturnedNone == [pc |-> "returned", is_none |-> TRUE, value |-> 0]

Returned(v) == [pc |-> "returned", is_none |-> FALSE, value |-> v]

\* the for loop of _get_compact_poly_deg from the k-th coefficient on
RECURSIVE compact_poly_deg_from(_, _, _)
compact_poly_deg_from(cs, k, d) ==
    IF k > Len(cs) THEN ReturnedNone
    ELSE IF cs[k] # 0 THEN Returned(d)
    ELSE compact_poly_deg_from(cs, k + 1, d - 1)

get_compact_poly_deg(cs) == compact_poly_deg_from(cs, 1, Len(cs) - 1)

GetCompactPolyDeg ==
    /\ deg = NotCalled
    /\ deg' = get_compact_poly_deg(coeffs)
    /\ UNCHANGED <<coeffs, fr, pslq>>
    /\ UNCHANGED domain_vars

\* no domain is being enumerated or split
NoDomainCalls ==
    /\ args = ExampleInput
    /\ self = ExampleDomain
    /\ number_of_instances = 1
    /\ InitUnsplit
    /\ primary_looped_domain = "a"

CoeffLists == UNION {[1..n -> MinCoef..MaxCoef] : n \in 0..MaxCoeffs}

InitDeg ==
    /\ coeffs \in CoeffLists
    /\ deg = NotCalled
    /\ fr = NotCalled
    /\ pslq = NotCalled
    /\ NoDomainCalls

NextDeg == GetCompactPolyDeg

SpecDeg == InitDeg /\ [][NextDeg]_vars

----------------------------------------------------------------------------
(* C16 *)

AllZero(cs) == \A k \in DOMAIN cs : cs[k] = 0

\* C16 as stated: for coefficients ordered from the highest-degree term,
\* _get_compact_poly_deg returns len(coeffs) - 1 - j, j being the position
\* (from 0) of the first coefficient that is not zero, and returns 0 when
\* every coefficient is zero.
C16_CompactDegree ==
    deg.pc = "returned" =>
        /\ ~deg.is_none
        /\ IF AllZero(coeffs) THEN deg.value = 0
           ELSE \E j \in 0..(Len(coeffs) - 1) :
                    /\ coeffs[j + 1] # 0
                    /\ \A k \in 1..j : coeffs[k] = 0
                    /\ deg.value = Len(coeffs) - 1 - j

----------------------------------------------------------------------------
(* ramanujan/enumerators/FREnumerator.py: check_for_fr                      *)
(*                                                                          *)
(* The sampled values are logarithms; the model keeps them in fixed point,  *)
(* as integers in units of 1 / Scale.                                       *)

\* longest term stream given to check_for_fr (a_0 and b_0 included)
MaxTerms == 6

\* The mpmath values are kept as integers in units of 1 / Scale.
Scale == 10 * 10 * 10 * 10 * 10 * 10

\* Two of these integers that differ by Tol or less stand for values whose
\* order the model does not know: the values of the code differ from them by
\* rounding (of the code's floating point and of the integers here), so a
\* comparison of the two can come out either way.
Tol == 16

\* CONVERGENCE_THRESHOLD = 0.1 (line 11), in units of 1 / Scale
CONVERGENCE_THRESHOLD == Scale \div 10

\* MIN_ITERS = 1 (line 14) is the default of min_iters; BURST_NUMBER = 200
\* (line 12), the default of burst_number, is scaled down: the pairs
\* <<burst_number, min_iters>> check_for_fr is called with
Schedules == {<<1, 1>>, <<1, 2>>, <<2, 1>>}

\* the a streams are those of the polynomials c0 + c1 * n, for these <<c0, c1>>
an_polys == {<<1, 0>>, <<2, 0>>, <<1, 1>>}

an_stream(c, n) == [k \in 1..n |-> c[1] + c[2] * (k - 1)]

\* the values the terms of the b streams are drawn from
bn_values == {0, 1, 2, 3}

\* the values of an_deg check_for_fr is called with
an_degs == {0, 1}

Abs(x) == IF x < 0 THEN 0 - x ELSE x

\* math.gcd
RECURSIVE gcd(_, _)
gcd(x, y) == IF y = 0 THEN Abs(x) ELSE gcd(y, x % Abs(y))

\* greatest k with 2^k <= n, for n >= 1
RECURSIVE floor_log2(_)
floor_log2(n) == IF n < 2 THEN 0 ELSE 1 + floor_log2(n \div 2)

RECURSIVE pow2(_)
pow2(k) == IF k = 0 THEN 1 ELSE 2 * pow2(k - 1)

\* x * y / Scale to the nearest unit, for 0 <= x, y < Scale (the product is
\* formed in parts of three digits, which keeps it within 32 bits)
mul(x, y) ==
    LET xh == x \div 1000
        xl == x % 1000
        yh == y \div 1000
        yl == y % 1000
    IN  xh * yh + ((xh * yl + xl * yh) * 1000 + xl * yl + 500000) \div 1000000

\* long division: q followed by `digits` more decimal digits of r / y, the
\* last one rounded
RECURSIVE long_div(_, _, _, _)
long_div(r, y, digits, q) ==
    IF digits = 0 THEN q + (IF 2 * r >= y THEN 1 ELSE 0)
    ELSE long_div((r * 10) % y, y, digits - 1, q * 10 + (r * 10) \div y)

\* x * Scale / y to the nearest unit, for 0 <= x < y < 2^27
scaled_div(x, y) == long_div(x, y, 6, 0)

\* 2 * atanh(z / Scale) * Scale for 0 <= z <= Scale / 3, by its power series
\* up to z^13 / 13; the terms are added over their common denominator 45045
two_atanh(z) ==
    LET z2 == mul(z, z)
        t3 == mul(z, z2)
        t5 == mul(t3, z2)
        t7 == mul(t5, z2)
        t9 == mul(t7, z2)
        t11 == mul(t9, z2)
        t13 == mul(t11, z2)
        num == t3 * 15015 + t5 * 9009 + t7 * 6435 + t9 * 5005 + t11 * 4095
               + t13 * 3465
    IN  2 * z + (2 * num + 22522) \div 45045

\* mpmath.log(n) * Scale for an integer n >= 1: n = 2^k * m with 1 <= m < 2,
\* log(n) = k * log(2) + log(m), log(m) = 2 * atanh((m - 1) / (m + 1)) and
\* log(2) = 0.69314718056; within 3 units of the code's value
log(n) ==
    LET k == floor_log2(n)
        shift == pow2(IF k > 25 THEN k - 25 ELSE 0)
        z == scaled_div((n - pow2(k)) \div shift,
                        n \div shift + pow2(k) \div shift)
    IN  k * 693147 + (k * 18056 + 50000) \div 100000 + two_atanh(z)

\* the value appended to calculated_values (lines 56-59)
calculated_value(p, q, i, an_deg) ==
    (log(gcd(p, q)) + i \div 2) \div i + an_deg * (Scale - log(i))

\* x and y are within Tol of each other
Close(x, y) == Abs(x - y) <= Tol

\* x > y and x < y on the values of the code: what the integers say when
\* they differ by more than Tol, else what the rounding makes of it
Greater(x, y, rounded) == IF Close(x, y) THEN rounded ELSE x > y

Less(x, y, rounded) == IF Close(x, y) THEN rounded ELSE x < y

\* What rounding can make of the two comparisons on the latest values: a pair
\* of outcomes, varied only for a comparison whose sides are close.
Roundings(vals) ==
    LET n == Len(vals)
        first == n >= 3 /\ Close(Abs(vals[n - 1] - vals[n]),
                                  Abs(vals[n - 1] - vals[n - 2]))
        second == n >= 2 /\ Close(Abs(vals[n - 1] - vals[n]), CONVERGENCE_THRESHOLD)
    IN  {r \in BOOLEAN \X BOOLEAN : (~first => r[1]) /\ (~second => r[2])}

\* the divergence test waiting for a fourth value
fr_decision_late_divergence(vals, num_of_calculated_vals, rounding) ==
    LET n == Len(vals)
    IN  IF num_of_calculated_vals >= 4
           /\ Greater(Abs(vals[n - 1] - vals[n]),
                      Abs(vals[n - 1] - vals[n - 2]), rounding[1])
        THEN "no_fr"
        ELSE IF num_of_calculated_vals >= 2
                /\ Less(Abs(vals[n - 1] - vals[n]), CONVERGENCE_THRESHOLD,
                        rounding[2])
        THEN "has_fr"
        ELSE "continue"

\* the convergence test with its comparison turned round
fr_decision_threshold_reversed(vals, num_of_calculated_vals, rounding) ==
    LET n == Len(vals)
    IN  IF num_of_calculated_vals >= 3
           /\ Greater(Abs(vals[n - 1] - vals[n]),
                      Abs(vals[n - 1] - vals[n - 2]), rounding[1])
        THEN "no_fr"
        ELSE IF num_of_calculated_vals >= 2
                /\ Greater(Abs(vals[n - 1] - vals[n]), CONVERGENCE_THRESHOLD,
                           rounding[2])
        THEN "has_fr"
        ELSE "continue"

\* the convergence test looking at the last value instead of the last gap
fr_decision_last_value(vals, num_of_calculated_vals, rounding) ==
    LET n == Len(vals)
    IN  IF num_of_calculated_vals >= 3
           /\ Greater(Abs(vals[n - 1] - vals[n]),
                      Abs(vals[n - 1] - vals[n - 2]), rounding[1])
        THEN "no_fr"
        ELSE IF num_of_calculated_vals >= 1
                /\ Less(Abs(vals[n]), CONVERGENCE_THRESHOLD, rounding[2])
        THEN "has_fr"
        ELSE "continue"

\* the two tests on calculated_values (lines 65-72); rounding[1] and
\* rounding[2] are what the comparison of the first and of the second test
\* comes to when its two sides are within Tol of each other
fr_decision(vals, num_of_calculated_vals, rounding) ==
    LET n == Len(vals)
    IN  IF num_of_calculated_vals >= 3
           /\ Greater(Abs(vals[n - 1] - vals[n]),
                      Abs(vals[n - 1] - vals[n - 2]), rounding[1])
        THEN "no_fr"
        ELSE IF num_of_calculated_vals >= 2
                /\ Less(Abs(vals[n - 1] - vals[n]), CONVERGENCE_THRESHOLD,
                        rounding[2])
        THEN "has_fr"
        ELSE "continue"

\* The frame of a call of check_for_fr: its arguments (the two streams as the
\* lists of terms they will produce), its locals, and how it ended. The
\* iterators are the numbers of terms consumed; i = -1 and p = 0 stand for
\* names not yet bound; line is the source line of the return statement that
\* ended the call.
fr_frame(an_terms, bn_terms, an_deg, burst_number, min_iters) ==
    [pc |-> "called",
     an_terms |-> an_terms, bn_terms |-> bn_terms, an_deg |-> an_deg,
     burst_number |-> burst_number, min_iters |-> min_iters,
     an_iterator |-> 0, bn_iterator |-> 0,
     calculated_values |-> <<>>, num_of_calculated_vals |-> 0,
     prev_q |-> 0, q |-> 1, prev_p |-> 1, p |-> 0,
     next_gcd_calculation |-> 0, i |-> 0 - 1,
     has_fr |-> FALSE, line |-> 0, raised |-> "none"]

\* lines 27-37: the frame when the loop is reached
fr_begin(f) ==
    [f EXCEPT !.pc = "loop",
              !.p = f.an_terms[1], !.an_iterator = 1,
              !.bn_iterator = 1,
              !.next_gcd_calculation =
                  IF f.burst_number >= f.min_iters
                  THEN f.burst_number ELSE f.min_iters]

\* lines 27-37: the locals are set and the first term of each stream is
\* taken; next() on a stream without terms raises StopIteration
FrBegin ==
    /\ fr.pc = "called"
    /\ fr' = IF Len(fr.an_terms) = 0
             THEN [fr EXCEPT !.pc = "raised", !.raised = "StopIteration"]
             ELSE IF Len(fr.bn_terms) = 0
             THEN [fr EXCEPT !.pc = "raised", !.raised = "StopIteration",
                             !.p = fr.an_terms[1], !.an_iterator = 1]
             ELSE fr_begin(fr)
    /\ UNCHANGED <<coeffs, deg, pslq>>
    /\ UNCHANGED domain_vars

\* zip(an_iterator, bn_iterator) has a next pair
HasNextPair(f) ==
    f.an_iterator < Len(f.an_terms) /\ f.bn_iterator < Len(f.bn_terms)

\* lines 39 and 74: zip is exhausted (it takes a term of an_iterator before it
\* finds bn_iterator empty); the loop ends and line 74 returns (False, i), or
\* fails on i when the loop never ran
FrExhausted ==
    /\ fr.pc = "loop"
    /\ ~HasNextPair(fr)
    /\ LET an_taken == IF fr.an_iterator < Len(fr.an_terms)
                       THEN fr.an_iterator + 1 ELSE fr.an_iterator
       IN  fr' = IF fr.i < 0
                 THEN [fr EXCEPT !.pc = "raised", !.raised = "UnboundLocalError",
                                 !.an_iterator = an_taken]
                 ELSE [fr EXCEPT !.pc = "returned", !.has_fr = FALSE,
                                 !.line = 74, !.an_iterator = an_taken]
    /\ UNCHANGED <<coeffs, deg, pslq>>
    /\ UNCHANGED domain_vars

\* lines 39-50: the frame after the pair (a_i, b_i) is taken and p, q are updated
fr_advance(f) ==
    LET a_i == f.an_terms[f.an_iterator + 1]
        b_i == f.bn_terms[f.bn_iterator + 1]
    IN  [f EXCEPT !.i = f.i + 1,
                  !.an_iterator = f.an_iterator + 1,
                  !.bn_iterator = f.bn_iterator + 1,
                  !.q = a_i * f.q + b_i * f.prev_q,
                  !.p = a_i * f.p + b_i * f.prev_p,
                  !.prev_q = f.q,
                  !.prev_p = f.p]

\* lines 52-59: the frame after a value is sampled
fr_sample(f) ==
    [f EXCEPT !.num_of_calculated_vals = f.num_of_calculated_vals + 1,
              !.next_gcd_calculation = f.next_gcd_calculation + f.burst_number,
              !.calculated_values =
                  Append(f.calculated_values,
                         calculated_value(f.p, f.q, f.i, f.an_deg))]

\* the zero test placed after the update of p and q
FrZeroTerm_after_update ==
    /\ fr.pc = "loop"
    /\ HasNextPair(fr)
    /\ fr.bn_terms[fr.bn_iterator + 1] = 0
    /\ fr' = [fr_advance(fr) EXCEPT !.pc = "returned", !.has_fr = FALSE, !.line = 41]
    /\ UNCHANGED <<coeffs, deg, pslq>>
    /\ UNCHANGED domain_vars

\* lines 39-41: the pair (a_i, b_i) is taken and b_i is 0
FrZeroTerm ==
    /\ fr.pc = "loop"
    /\ HasNextPair(fr)
    /\ fr.bn_terms[fr.bn_iterator + 1] = 0
    /\ fr' = [fr EXCEPT !.pc = "returned", !.has_fr = FALSE, !.line = 41,
                        !.i = fr.i + 1,
                        !.an_iterator = fr.an_iterator + 1,
                        !.bn_iterator = fr.bn_iterator + 1]
    /\ UNCHANGED <<coeffs, deg, pslq>>
    /\ UNCHANGED domain_vars

\* lines 39-52: an iteration that takes no sample
FrStep ==
    /\ fr.pc = "loop"
    /\ HasNextPair(fr)
    /\ fr.bn_terms[fr.bn_iterator + 1] # 0
    /\ fr.i + 1 # fr.next_gcd_calculation
    /\ fr' = fr_advance(fr)
    /\ UNCHANGED <<coeffs, deg, pslq>>
    /\ UNCHANGED domain_vars

\* lines 39-72: an iteration that takes a sample and applies the two tests
\* (with either outcome of a comparison that rounding decides)
FrSample ==
    /\ fr.pc = "loop"
    /\ HasNextPair(fr)
    /\ fr.bn_terms[fr.bn_iterator + 1] # 0
    /\ fr.i + 1 = fr.next_gcd_calculation
    /\ LET f == fr_sample(fr_advance(fr))
       IN  \E rounding \in Roundings(f.calculated_values) :
              LET verdict == fr_decision(f.calculated_values,
                                         f.num_of_calculated_vals, rounding)
              IN  fr' = IF verdict = "no_fr"
                        THEN [f EXCEPT !.pc = "returned", !.has_fr = FALSE, !.line = 68]
                        ELSE IF verdict = "has_fr"
                        THEN [f EXCEPT !.pc = "returned", !.has_fr = TRUE, !.line = 72]
                        ELSE f
    /\ UNCHANGED <<coeffs, deg, pslq>>
    /\ UNCHANGED domain_vars

\* check_for_fr is called with two streams of the same length
InitFR ==
    /\ \E n \in 0..MaxTerms, d \in an_degs, s \in Schedules :
          \E c \in an_polys, bn \in [1..n -> bn_values] :
              fr = fr_frame(an_stream(c, n), bn, d, s[1], s[2])
    /\ coeffs = <<>>
    /\ deg = NotCalled
    /\ pslq = NotCalled
    /\ NoDomainCalls

NextFR == FrBegin \/ FrExhausted \/ FrZeroTerm \/ FrStep \/ FrSample

SpecFR == InitFR /\ [][NextFR]_vars

----------------------------------------------------------------------------
(* What the properties of check_for_fr speak of: the samples of a stream,   *)
(* whatever the call decides on the way                                     *)

\* no term b_i after b_0 is zero
NoZeroTerm(f) == \A k \in 2..Len(f.bn_terms) : f.bn_terms[k] # 0

\* the values sampled when the loop runs on from frame f to the end of the
\* streams (or to the first zero term) without applying the tests
RECURSIVE SamplesFrom(_)
SamplesFrom(f) ==
    IF ~HasNextPair(f) \/ f.bn_terms[f.bn_iterator + 1] = 0
    THEN f.calculated_values
    ELSE LET g == fr_advance(f)
         IN  SamplesFrom(IF g.i = g.next_gcd_calculation THEN fr_sample(g) ELSE g)

\* the burst-samples of the streams check_for_fr was called with
StreamSamples(f) ==
    IF Len(f.an_terms) = 0 \/ Len(f.bn_terms) = 0 THEN <<>>
    ELSE SamplesFrom(fr_begin(fr_frame(f.an_terms, f.bn_terms, f.an_deg,
                                       f.burst_number, f.min_iters)))

Gap(s, k) == Abs(s[k + 1] - s[k])

\* The properties below compare sampled values. Where they say that one is
\* greater or smaller than another, or than the threshold, the two differ by
\* more than Tol: for values closer than that the code's comparison is a
\* matter of floating-point rounding, which the integers do not tell.
ClearlyGreater(x, y) == x - y > Tol

ClearlyLess(x, y) == y - x > Tol

\* the first gap of the samples is not within rounding of the threshold
FirstGapClear(s) ==
    \/ ClearlyLess(Gap(s, 1), CONVERGENCE_THRESHOLD)
    \/ ClearlyGreater(Gap(s, 1), CONVERGENCE_THRESHOLD)

StrictlyIncreasingGaps(s) ==
    /\ Len(s) >= 3
    /\ \A k \in 1..(Len(s) - 2) : ClearlyGreater(Gap(s, k + 1), Gap(s, k))

\* the step (value of i) at which the k-th sample is taken
StepOfSample(f, k) ==
    (IF f.burst_number >= f.min_iters THEN f.burst_number ELSE f.min_iters)
        + (k - 1) * f.burst_number

\* the call returned from one of the two tests on the samples
DecidedBySamples(f) == f.pc = "returned" /\ f.line \in {68, 72}

----------------------------------------------------------------------------
(* C11 *)

\* C11: when the term b_i taken at step i is 0, check_for_fr returns
\* (False, i) in that step, as a result and not as an exception, with p, q,
\* prev_p, prev_q and the sampled values as they were before the step; b_0 is
\* taken before the loop and is not tested.
C11_ZeroTermAborts ==
    /\ [][(fr.pc = "loop" /\ HasNextPair(fr) /\ fr.bn_terms[fr.bn_iterator + 1] = 0) =>
             /\ fr'.pc = "returned"
             /\ fr'.raised = "none"
             /\ ~fr'.has_fr
             /\ fr'.i = fr.bn_iterator - 1
             /\ <<fr'.p, fr'.q, fr'.prev_p, fr'.prev_q>> = <<fr.p, fr.q, fr.prev_p, fr.prev_q>>
             /\ fr'.calculated_values = fr.calculated_values
             /\ fr'.num_of_calculated_vals = fr.num_of_calculated_vals]_vars
    /\ [][(fr.pc = "called" /\ Len(fr.an_terms) > 0 /\ Len(fr.bn_terms) > 0) =>
             fr'.pc = "loop"]_vars

\* a zero term met after a sample was taken, b_0 being zero as well
C11_Witness ==
    /\ fr.pc = "returned"
    /\ fr.line = 41
    /\ fr.bn_terms[fr.bn_iterator] = 0
    /\ fr.bn_terms[1] = 0
    /\ fr.i >= 2
    /\ fr.num_of_calculated_vals >= 1
    /\ fr.p > fr.prev_p

----------------------------------------------------------------------------
(* C12 *)

\* C12 as stated: for streams without a zero term whose samples have
\* strictly increasing gaps (each greater than the one before by more than
\* rounding), check_for_fr returns False at the step of the third sample.
C12_DivergenceAtThirdSample ==
    (fr.pc = "returned" /\ NoZeroTerm(fr) /\ StrictlyIncreasingGaps(StreamSamples(fr))
        /\ FirstGapClear(StreamSamples(fr))) =>
        /\ ~fr.has_fr
        /\ fr.i = StepOfSample(fr, 3)
        /\ Len(fr.calculated_values) = 3

\* C12 amended: for streams without a zero term whose samples have strictly
\* increasing gaps, check_for_fr returns False at the step of the third
\* sample when the first gap is at least CONVERGENCE_THRESHOLD; when the
\* first gap is below it, check_for_fr returns True at the step of the
\* second sample. (Gaps are compared beyond rounding, with each other and
\* with the threshold.)
C12_DivergenceAfterWideFirstGap ==
    (fr.pc = "returned" /\ NoZeroTerm(fr) /\ StrictlyIncreasingGaps(StreamSamples(fr))
        /\ FirstGapClear(StreamSamples(fr))) =>
        IF ClearlyGreater(Gap(StreamSamples(fr), 1), CONVERGENCE_THRESHOLD)
        THEN /\ ~fr.has_fr
             /\ fr.i = StepOfSample(fr, 3)
             /\ Len(fr.calculated_values) = 3
        ELSE /\ fr.has_fr
             /\ fr.i = StepOfSample(fr, 2)
             /\ Len(fr.calculated_values) = 2

\* the divergence test ended a call on streams whose first gap is wide and
\* whose second gap is wider
C12_Witness ==
    /\ fr.pc = "returned"
    /\ fr.line = 68
    /\ NoZeroTerm(fr)
    /\ StrictlyIncreasingGaps(StreamSamples(fr))
    /\ ClearlyGreater(Gap(StreamSamples(fr), 1), CONVERGENCE_THRESHOLD)
    /\ fr.i = 3
    /\ HasNextPair(fr)

----------------------------------------------------------------------------
(* C13 *)

\* C13 as stated: for streams without a zero term whose gap between the
\* second and the third sample is below CONVERGENCE_THRESHOLD (by more than
\* rounding), check_for_fr returns True with the step of the third sample.
C13_ConvergenceAtThirdSample ==
    (fr.pc = "returned" /\ NoZeroTerm(fr) /\ Len(StreamSamples(fr)) >= 3
        /\ ClearlyLess(Gap(StreamSamples(fr), 2), CONVERGENCE_THRESHOLD)
        /\ FirstGapClear(StreamSamples(fr))) =>
        /\ fr.has_fr
        /\ fr.i = StepOfSample(fr, 3)

\* C13 amended: for such streams check_for_fr returns True, with the step of
\* the third sample when the gap between the first and the second sample is
\* at least CONVERGENCE_THRESHOLD, and with the step of the second sample
\* when that gap is below it. (Gaps are compared with the threshold beyond
\* rounding.)
C13_ConvergenceBySecondOrThirdSample ==
    (fr.pc = "returned" /\ NoZeroTerm(fr) /\ Len(StreamSamples(fr)) >= 3
        /\ ClearlyLess(Gap(StreamSamples(fr), 2), CONVERGENCE_THRESHOLD)
        /\ FirstGapClear(StreamSamples(fr))) =>
        /\ fr.has_fr
        /\ fr.line = 72
        /\ fr.i = IF ClearlyGreater(Gap(StreamSamples(fr), 1), CONVERGENCE_THRESHOLD)
                  THEN StepOfSample(fr, 3) ELSE StepOfSample(fr, 2)

\* the convergence test ended a call at the third sample
C13_Witness ==
    /\ fr.pc = "returned"
    /\ fr.has_fr
    /\ NoZeroTerm(fr)
    /\ Len(fr.calculated_values) = 3
    /\ ClearlyGreater(Gap(fr.calculated_values, 1), CONVERGENCE_THRESHOLD)
    /\ ClearlyLess(Gap(fr.calculated_values, 2), CONVERGENCE_THRESHOLD)
    /\ fr.i = StepOfSample(fr, 3)

----------------------------------------------------------------------------
(* C17 *)

\* C17 as stated: a result that comes from the tests on the samples is
\* returned only when at least 3 samples have been taken.
C17_ThreeSamplesBeforeDecision ==
    DecidedBySamples(fr) => Len(fr.calculated_values) >= 3

\* C17 amended: a False that comes from the divergence test is returned only
\* when at least 3 samples have been taken, a True that comes from the
\* convergence test only when at least 2 have; with fewer than 2 samples the
\* tests on the samples return nothing.
C17_SamplesBeforeDecision ==
    /\ fr.pc \in {"loop", "returned"} =>
           fr.num_of_calculated_vals = Len(fr.calculated_values)
    /\ DecidedBySamples(fr) =>
           /\ Len(fr.calculated_values) >= 2
           /\ ~fr.has_fr => Len(fr.calculated_values) >= 3

\* True returned on two samples
C17_Witness ==
    /\ DecidedBySamples(fr)
    /\ fr.has_fr
    /\ Len(fr.calculated_values) = 2

----------------------------------------------------------------------------
(* C20 *)

LatestGap(f) == Gap(f.calculated_values, Len(f.calculated_values) - 1)

PreviousGap(f) == Gap(f.calculated_values, Len(f.calculated_values) - 2)

\* the two tests of lines 65-72 with the convergence test placed first
fr_decision_convergence_first(vals, num_of_calculated_vals, rounding) ==
    LET n == Len(vals)
    IN  IF num_of_calculated_vals >= 2
           /\ Less(Abs(vals[n - 1] - vals[n]), CONVERGENCE_THRESHOLD,
                   rounding[2])
        THEN "has_fr"
        ELSE IF num_of_calculated_vals >= 3
                /\ Greater(Abs(vals[n - 1] - vals[n]),
                           Abs(vals[n - 1] - vals[n - 2]), rounding[1])
        THEN "no_fr"
        ELSE "continue"

\* C20 speaks of a sample, the third or a later one, whose gap to the sample
\* before it is both greater than the gap before and below
\* CONVERGENCE_THRESHOLD. No call of check_for_fr takes such a sample: a call
\* that takes a third or later sample did not return at the sample before,
\* so the gap before is not below the threshold.
OverlapNeverSampled ==
    (fr.pc \in {"loop", "returned"} /\ Len(fr.calculated_values) >= 3) =>
        ~(LatestGap(fr) > PreviousGap(fr) /\ LatestGap(fr) < CONVERGENCE_THRESHOLD)

\* Hence the order of the two tests decides nothing: on the samples of every
\* call, and whatever rounding makes of a close comparison, the tests give
\* the same verdict in either order.
TestOrderUnobservable ==
    (fr.pc \in {"loop", "returned"} /\ Len(fr.calculated_values) >= 1) =>
        \A rounding \in Roundings(fr.calculated_values) :
            fr_decision(fr.calculated_values, fr.num_of_calculated_vals, rounding)
                = fr_decision_convergence_first(fr.calculated_values,
                                                fr.num_of_calculated_vals, rounding)

\* a third sample whose gap is greater than the gap before it
GrowingGapAtThirdSample ==
    /\ fr.pc = "returned"
    /\ Len(fr.calculated_values) >= 3
    /\ LatestGap(fr) > PreviousGap(fr)

----------------------------------------------------------------------------
(* FREnumerator._improve_results_precision, lines 106-144 *)

\* the longest list of precise intermediate results
MaxBatch == 3

\* None as the value of c_top and c_bot
NoRelation == [is_none |-> TRUE, coefs |-> <<>>]

Relation(cs) == [is_none |-> FALSE, coefs |-> cs]

\* what one call of mpmath.pslq does: it raises, returns None, or returns
\* the integer vector res
PslqRaised == [kind |-> "raise", res |-> <<>>]

PslqNone == [kind |-> "none", res |-> <<>>]

PslqVector(res) == [kind |-> "found", res |-> res]

\* the triples (match, val, precision) that the call of the base class's
\* _improve_results_precision hands over; a match is (an_coef, bn_coef)
PreciseResults ==
    { [match |-> <<<<1, 0>>, <<1>>>>, val |-> 1, precision |-> 10],
      [match |-> <<<<1, 1>>, <<2>>>>, val |-> 2, precision |-> 10],
      [match |-> <<<<2, 1>>, <<1>>>>, val |-> 3, precision |-> 20] }

\* relations res in the basis 1, const, const^2, -val, -const val,
\* -const^2 val, that is val = res[:3] / res[3:] as polynomials in const
\* (coefficient of const^k at place k + 1), with a nonzero denominator:
\*   2 / (2 const)                     a common integer factor
\*   (-3 + 3 const) / (-6 const^2)     a common negative integer factor
\*   const / const^2                   the common factor const (line 136)
\*   (1 + const)^2 / (2 + 2 const)     the common factor 1 + const
\*   (2 + 2 const^2) / (-4 - 4 const^2)  the common factor 1 + const^2
PslqOutcomes ==
    { PslqRaised, PslqNone,
      PslqVector(<<2, 0, 0, 0, 2, 0>>),
      PslqVector(<<0 - 3, 3, 0, 0, 0, 0 - 6>>),
      PslqVector(<<0, 1, 0, 0, 0, 1>>),
      PslqVector(<<1, 2, 1, 2, 2, 0>>),
      PslqVector(<<2, 0, 2, 0 - 4, 0, 0 - 4>>) }

Batches == UNION {[1..n -> PreciseResults] : n \in 0..MaxBatch}

\* gcd of the entries of a list
RECURSIVE gcd_of(_, _)
gcd_of(cs, k) == IF k > Len(cs) THEN 0 ELSE gcd(cs[k], gcd_of(cs, k + 1))

\* the last nonzero entry of a list, 0 if there is none
RECURSIVE lead_coef(_, _)
lead_coef(cs, k) ==
    IF k = 0 THEN 0 ELSE IF cs[k] # 0 THEN cs[k] ELSE lead_coef(cs, k - 1)

\* the degree of a polynomial given by its coefficients, lowest first;
\* -1 for the zero polynomial
poly_deg(f) ==
    LET nz == {k \in 1..Len(f) : f[k] # 0}
    IN  IF nz = {} THEN 0 - 1 ELSE (CHOOSE k \in nz : \A j \in nz : j <= k) - 1

\* a polynomial divided by the gcd of its coefficients
poly_primitive(f) ==
    LET c == gcd_of(f, 1)
    IN  IF c = 0 THEN f ELSE [k \in 1..Len(f) |-> f[k] \div c]

\* f - s x^k g
poly_sub_shifted(f, s, k, g) ==
    [j \in 1..Len(f) |-> f[j] - (IF j - k >= 1 THEN s * g[j - k] ELSE 0)]

\* the remainder of a by b, up to an integer factor; b is not zero
RECURSIVE poly_prem(_, _)
poly_prem(a, b) ==
    IF poly_deg(a) < poly_deg(b)
    THEN a
    ELSE LET la == lead_coef(a, Len(a))
             lb == lead_coef(b, Len(b))
             scaled == [j \in 1..Len(a) |-> lb * a[j]]
         IN  poly_prem(poly_primitive(
                 poly_sub_shifted(scaled, la, poly_deg(a) - poly_deg(b), b)), b)

\* the greatest common divisor of two polynomials, with coprime integer
\* coefficients (Euclid's algorithm)
RECURSIVE poly_gcd(_, _)
poly_gcd(a, b) ==
    IF poly_deg(b) < 0 THEN poly_primitive(a) ELSE poly_gcd(b, poly_prem(a, b))

\* the quotient of a by its divisor g, added to q
RECURSIVE poly_quo(_, _, _)
poly_quo(a, g, q) ==
    IF poly_deg(a) < poly_deg(g)
    THEN q
    ELSE LET k == poly_deg(a) - poly_deg(g)
             c == lead_coef(a, Len(a)) \div lead_coef(g, Len(g))
         IN  poly_quo(poly_sub_shifted(a, c, k, g), g,
                      [j \in 1..Len(q) |-> IF j = k + 1 THEN c ELSE q[j]])

\* get_reduced_fraction(numerator, denominator, max_deg), for a nonzero
\* denominator: the fraction of the two polynomials of degree at most
\* max_deg in lowest terms. Their common polynomial factor and the common
\* integer factor of what is left are divided out, the leading coefficient
\* of the denominator is made positive, and each side is returned as
\* max_deg + 1 coefficients.
get_reduced_fraction(numerator, denominator, max_deg) ==
    LET g == poly_gcd(numerator, denominator)
        zero == [k \in 1..max_deg + 1 |-> 0]
        num == poly_quo(numerator, g, zero)
        den == poly_quo(denominator, g, zero)
        c == gcd_of(num \o den, 1)
        t == IF lead_coef(den, Len(den)) < 0 THEN 0 - c ELSE c
    IN  <<[k \in 1..max_deg + 1 |-> num[k] \div t],
          [k \in 1..max_deg + 1 |-> den[k] \div t]>>

\* the namedtuple of line 17
RefinedMatch(rhs_an_poly, rhs_bn_poly, val, c_top, c_bot, precision) ==
    [rhs_an_poly |-> rhs_an_poly, rhs_bn_poly |-> rhs_bn_poly, val |-> val,
     c_top |-> c_top, c_bot |-> c_bot, precision |-> precision]

\* the frame of one call: the list of line 117, what mpmath.pslq does on
\* each of its triples, the position of the for loop of line 125 and
\* pslq_results
pslq_frame(precise_intermediate_results, mpmath_pslq) ==
    [pc |-> "called",
     precise_intermediate_results |-> precise_intermediate_results,
     mpmath_pslq |-> mpmath_pslq,
     k |-> 0,
     pslq_results |-> <<>>]

\* lines 117-124
PslqBegin ==
    /\ pslq.pc = "called"
    /\ pslq' = [pslq EXCEPT !.pc = "loop", !.k = 1, !.pslq_results = <<>>]
    /\ UNCHANGED <<coeffs, deg, fr>>
    /\ UNCHANGED domain_vars

\* the triple that the for loop of line 125 is at
AtCandidate(f) == f.pc = "loop" /\ f.k <= Len(f.precise_intermediate_results)

Candidate(f) == f.precise_intermediate_results[f.k]

pslq_res(f) == f.mpmath_pslq[Candidate(f)]

\* the exception of mpmath.pslq leaving _improve_results_precision
PslqRaises_propagates ==
    /\ AtCandidate(pslq)
    /\ pslq_res(pslq).kind = "raise"
    /\ pslq' = [pslq EXCEPT !.pc = "raised"]
    /\ UNCHANGED <<coeffs, deg, fr>>
    /\ UNCHANGED domain_vars

\* lines 125-134: mpmath.pslq raises, the handler prints and continues
PslqRaises ==
    /\ AtCandidate(pslq)
    /\ pslq_res(pslq).kind = "raise"
    /\ pslq' = [pslq EXCEPT !.k = pslq.k + 1]
    /\ UNCHANGED <<coeffs, deg, fr>>
    /\ UNCHANGED domain_vars

\* lines 125-130, 135-140: mpmath.pslq returns a vector
PslqFound ==
    /\ AtCandidate(pslq)
    /\ pslq_res(pslq).kind = "found"
    /\ LET c == Candidate(pslq)
           res == pslq_res(pslq).res
           reduced == get_reduced_fraction(SubSeq(res, 1, 3),
                                            SubSeq(res, 4, Len(res)), 2)
       IN  pslq' = [pslq EXCEPT
                       !.k = pslq.k + 1,
                       !.pslq_results = Append(pslq.pslq_results,
                           RefinedMatch(c.match[1], c.match[2], c.val,
                                        Relation(reduced[1]), Relation(reduced[2]),
                                        c.precision))]
    /\ UNCHANGED <<coeffs, deg, fr>>
    /\ UNCHANGED domain_vars

\* lines 125-130, 141-142: mpmath.pslq returns None
PslqNotFound ==
    /\ AtCandidate(pslq)
    /\ pslq_res(pslq).kind = "none"
    /\ LET c == Candidate(pslq)
       IN  pslq' = [pslq EXCEPT
                       !.k = pslq.k + 1,
                       !.pslq_results = Append(pslq.pslq_results,
                           RefinedMatch(c.match[1], c.match[2], c.val,
                                        NoRelation, NoRelation, c.precision))]
    /\ UNCHANGED <<coeffs, deg, fr>>
    /\ UNCHANGED domain_vars

\* line 144
PslqReturn ==
    /\ pslq.pc = "loop"
    /\ pslq.k > Len(pslq.precise_intermediate_results)
    /\ pslq' = [pslq EXCEPT !.pc = "returned"]
    /\ UNCHANGED <<coeffs, deg, fr>>
    /\ UNCHANGED domain_vars

InitPslq ==
    /\ \E b \in Batches, o \in [PreciseResults -> PslqOutcomes] :
           pslq = pslq_frame(b, o)
    /\ coeffs = <<>>
    /\ deg = NotCalled
    /\ fr = NotCalled
    /\ NoDomainCalls

NextPslq == PslqBegin \/ PslqRaises \/ PslqFound \/ PslqNotFound \/ PslqReturn

SpecPslq == InitPslq /\ [][NextPslq]_vars

----------------------------------------------------------------------------
(* C14 *)

\* the positions, among the first n triples, whose search does not raise
NonRaising(f, n) ==
    {j \in 1..n : f.mpmath_pslq[f.precise_intermediate_results[j]].kind # "raise"}

\* the position of the m-th triple whose search does not raise
NthNonRaising(f, n, m) ==
    CHOOSE j \in NonRaising(f, n) :
        Cardinality({x \in NonRaising(f, n) : x <= j}) = m

\* the coefficient of const^m in the product of two polynomials of three
\* coefficients each
ProductCoef(f, g, m) ==
    LET term(i) == IF m - i >= 0 /\ m - i <= 2 THEN f[i + 1] * g[m - i + 1] ELSE 0
    IN  term(0) + term(1) + term(2)

\* top / bot and num / denom are the same fraction
SameFraction(top, bot, num, denom) ==
    \A m \in 0..4 : ProductCoef(top, denom, m) = ProductCoef(bot, num, m)

\* the largest absolute value among the coefficients of p
MaxAbsCoef(p) ==
    CHOOSE m \in {Abs(p[k]) : k \in 1..Len(p)} : \A k \in 1..Len(p) : Abs(p[k]) <= m

\* -f0 / f1 is a root of the polynomial p of three coefficients
HasRoot(p, f0, f1) == p[1] * f1 * f1 - p[2] * f0 * f1 + p[3] * f0 * f0 = 0

\* two polynomials of degree at most 2 have a common factor of positive
\* degree: a common rational root (in lowest terms its numerator and its
\* denominator divide coefficients of bot), or bot itself when top is a
\* multiple of it
HasCommonFactor(top, bot) ==
    \/ \E f0 \in (0 - MaxAbsCoef(bot))..MaxAbsCoef(bot), f1 \in 1..MaxAbsCoef(bot) :
           HasRoot(top, f0, f1) /\ HasRoot(bot, f0, f1)
    \/ /\ bot[2] # 0 \/ bot[3] # 0
       /\ \A i, j \in 1..3 : top[i] * bot[j] = top[j] * bot[i]

\* top / bot is res[:3] / res[3:] in lowest terms: the same fraction, three
\* coefficients on each side, with no common integer factor and no common
\* polynomial factor
IsReducedFrom(top, bot, res) ==
    /\ ~top.is_none /\ ~bot.is_none
    /\ Len(top.coefs) = 3 /\ Len(bot.coefs) = 3
    /\ \E k \in 1..3 : bot.coefs[k] # 0
    /\ SameFraction(top.coefs, bot.coefs, SubSeq(res, 1, 3), SubSeq(res, 4, 6))
    /\ gcd_of(top.coefs \o bot.coefs, 1) = 1
    /\ ~HasCommonFactor(top.coefs, bot.coefs)

\* the m-th entry of pslq_results is the RefinedMatch of the j-th triple
IsMatchOf(f, m, j) ==
    LET r == f.pslq_results[m]
        c == f.precise_intermediate_results[j]
        o == f.mpmath_pslq[c]
    IN  /\ r.rhs_an_poly = c.match[1]
        /\ r.rhs_bn_poly = c.match[2]
        /\ r.val = c.val
        /\ r.precision = c.precision
        /\ IF o.kind = "none"
           THEN r.c_top = NoRelation /\ r.c_bot = NoRelation
           ELSE IsReducedFrom(r.c_top, r.c_bot, o.res)

\* C14: an exception of the relation search never leaves
\* _improve_results_precision; after the loop has passed n triples,
\* pslq_results holds one RefinedMatch for each of them whose search did not
\* raise, in their order, with the reduced relation when one was found and
\* with c_top = c_bot = None when none was; the call returns only after the
\* last triple.
C14_RaisingCandidatesSkipped ==
    /\ pslq.pc \in {"called", "loop", "returned"}
    /\ pslq.pc \in {"loop", "returned"} =>
           LET n == pslq.k - 1
           IN  /\ n <= Len(pslq.precise_intermediate_results)
               /\ Len(pslq.pslq_results) = Cardinality(NonRaising(pslq, n))
               /\ \A m \in 1..Len(pslq.pslq_results) :
                      IsMatchOf(pslq, m, NthNonRaising(pslq, n, m))
    /\ pslq.pc = "returned" => pslq.k = Len(pslq.precise_intermediate_results) + 1

\* a returned call on three triples: the search raised on the first, found
\* const / const^2 for the second and nothing for the third; the output
\* holds 1 / const for the second and a null relation for the third
C14_Witness ==
    /\ pslq.pc = "returned"
    /\ Len(pslq.precise_intermediate_results) = 3
    /\ pslq.mpmath_pslq[pslq.precise_intermediate_results[1]].kind = "raise"
    /\ pslq.mpmath_pslq[pslq.precise_intermediate_results[2]] =
           PslqVector(<<0, 1, 0, 0, 0, 1>>)
    /\ pslq.mpmath_pslq[pslq.precise_intermediate_results[3]].kind = "none"
    /\ Len(pslq.pslq_results) = 2
    /\ pslq.pslq_results[1].val = pslq.precise_intermediate_results[2].val
    /\ pslq.pslq_results[1].c_top = Relation(<<1, 0, 0>>)
    /\ pslq.pslq_results[1].c_bot = Relation(<<0, 1, 0>>)
    /\ pslq.pslq_results[2].c_top = NoRelation
    /\ pslq.pslq_results[2].c_bot = NoRelation

====
